---- MODULE Spec2Model ----
(***************************************************************************)
(* Model of PbEuSe.py: the gap model Eg_func, the experimental dataset     *)
(* selector GetExpData and the module-level sweep driver.                  *)
(*                                                                         *)
(* Numbers are fixed point:                                                *)
(*   exchange parameters and gaps handed to collaborators: 1e-4 eV         *)
(*   composition x: tenths;  temperature T: tenths of a kelvin             *)
(*   value returned by Eg_func: 1e-5 eV                                    *)
(*   mu_Bohr: 1e-7 eV/T                                                    *)
(***************************************************************************)
EXTENDS Integers, Sequences, FiniteSets, TLC

VARIABLES
    pc,             \* position of the module-level code
    defined,        \* names bound in the module namespace
    Eg,             \* module global Eg (line 41)
    B_vec, vt, vl, mu_Bohr,         \* lines 45-50
    Eg_bench, H_bench_inputs,       \* lines 125-128
    data_i, scale_factor,           \* loop variables (lines 136, 139)
    params,         \* (A, a1, a2, B, b1, b2) unpacked at line 144
    E_inputs, x_inputs, temperature, \* lines 148, 152/163, 161
    calls,          \* calls made by the sweep loop, in order
    printed,        \* what the most recent GetExpData call printed
    ret,            \* the most recent call of Eg_func / GetExpData and its outcome
    eg_seen,        \* one earlier Eg_func call, remembered for comparison
    err,            \* the exception that ended the run, if any
    ncb,            \* Eg_of_x calls made by the running composition sweep
    iter            \* positions of the two for-loops in their lists

vars == <<pc, defined, Eg, B_vec, vt, vl, mu_Bohr, Eg_bench, H_bench_inputs,
          data_i, scale_factor, params, E_inputs, x_inputs, temperature,
          calls, printed, ret, eg_seen, err, ncb, iter>>

\* the module globals that the claims call the physical constants
physConsts == <<B_vec, vt, vl, mu_Bohr, Eg_bench, H_bench_inputs>>

\* every module global
globals == <<defined, Eg, B_vec, vt, vl, mu_Bohr, Eg_bench, H_bench_inputs,
             data_i, scale_factor, params, E_inputs, x_inputs, temperature>>

----------------------------------------------------------------------------
(* Bounds of the model *)

\* dataset indices tried by callers: -1 .. MaxIndex
MaxIndex == 4
\* scale factors tried by callers: 0 .. MaxScale
MaxScale == 2
\* largest composition tried by callers, tenths
MaxX == 10
\* Eg_of_x calls one composition sweep may make
MaxCallbacks == 2

IndexInputs == (-1)..MaxIndex
ScaleInputs == 0..MaxScale
\* compositions tried by callers, tenths
XInputs == {0, 1, MaxX}
\* temperatures tried by callers, tenths of a kelvin
TInputs == {17, 100}

----------------------------------------------------------------------------
(* Eg_func, lines 29-35 *)

RECURSIVE Bisect(_, _, _)
\* largest r in lo..hi with r*r <= n
Bisect(lo, hi, n) ==
    IF lo >= hi THEN lo
    ELSE LET mid == (lo + hi + 1) \div 2
         IN  IF mid * mid <= n THEN Bisect(mid, hi, n) ELSE Bisect(lo, mid - 1, n)

\* np.sqrt of n/1e6, in thousandths
sqrt(n) == Bisect(0, 46340, n)

\* EgMilli with the constant 22.5 added instead of subtracted
EgMilli_plus_offset(x, T) ==
    72000 - 71000 * x + 24400 * x * x - 4750 * x * x * x + 22500
      + sqrt(506000000 + 1000 * (T - 42) * (T - 42))

\* the bracket of line 35 in thousandths of a meV; x in tenths, T in tenths of K
EgMilli(x, T) ==
    72000 - 71000 * x + 24400 * x * x - 4750 * x * x * x - 22500
      + sqrt(506000000 + 1000 * (T - 42) * (T - 42))

\* Eg_func using the module global temperature in place of its parameter T
Eg_func_global_T(x, T) == (EgMilli(x, temperature) * 100) \div 1000

\* band gap in 1e-5 eV: the bracket in 1e-5 units, divided by 1000
Eg_func(x, T) == (EgMilli(x, T) * 100) \div 1000

----------------------------------------------------------------------------
(* GetExpData, lines 72-115 *)

\* ScaleArg with a default of 0
ScaleArg_default_zero(kw) == IF Len(kw) = 0 THEN 0 ELSE kw[1]

\* binding of the keyword argument scale_factor, default 1 (line 72)
ScaleArg(kw) == IF Len(kw) = 0 THEN 1 ELSE kw[1]

\* Scaled with the scale factor left off b2
Scaled_b2_unscaled(A, a1, a2, B, b1, b2, s) == <<A * s, a1 * s, a2 * s, B * s, b1 * s, b2>>

\* line 115: the tuple with the scale factor applied
Scaled(A, a1, a2, B, b1, b2, s) == <<A * s, a1 * s, a2 * s, B * s, b1 * s, b2 * s>>

\* outcome of a GetExpData call that returns
Returns(cond, value) ==
    [outcome |-> "return", value |-> value, cond |-> cond]

\* outcome of a GetExpData call that raises
Raises(exc) ==
    [outcome |-> exc, value |-> <<>>, cond |-> <<>>]

\* GetExpData with the row of data set 0 returned for every unknown index
GetExpData_fallback(d, s) ==
    IF d = 1 THEN Returns(<<240, 17>>, Scaled(244, 200, 200 - 244, 60, 25, 25 - 60, s))
    ELSE IF d = 2 THEN Returns(<<240, 60>>, Scaled(240, 180, 180 - 240, 78, 9, 9 - 78, s))
    ELSE IF d = 3 THEN Returns(<<240, 120>>, Scaled(220, 175, 175 - 220, 97, 22, 22 - 97, s))
    ELSE Returns(<<142, 17>>, Scaled(320, 300, 300 - 320, 66, 75, 75 - 66, s))

\* GetExpData with the operands of a2 exchanged in the row of data set 3
GetExpData_a2_swapped(d, s) ==
    IF d = 0 THEN Returns(<<142, 17>>, Scaled(320, 300, 300 - 320, 66, 75, 75 - 66, s))
    ELSE IF d = 1 THEN Returns(<<240, 17>>, Scaled(244, 200, 200 - 244, 60, 25, 25 - 60, s))
    ELSE IF d = 2 THEN Returns(<<240, 60>>, Scaled(240, 180, 180 - 240, 78, 9, 9 - 78, s))
    ELSE IF d = 3 THEN Returns(<<240, 120>>, Scaled(220, 175, 220 - 175, 97, 22, 22 - 97, s))
    ELSE Raises("ValueError")

\* the if/elif chain of lines 85-115; cond is the (x in 1e-4, T in tenths of K)
\* named by the printed line
GetExpData(d, s) ==
    IF d = 0 THEN Returns(<<142, 17>>, Scaled(320, 300, 300 - 320, 66, 75, 75 - 66, s))
    ELSE IF d = 1 THEN Returns(<<240, 17>>, Scaled(244, 200, 200 - 244, 60, 25, 25 - 60, s))
    ELSE IF d = 2 THEN Returns(<<240, 60>>, Scaled(240, 180, 180 - 240, 78, 9, 9 - 78, s))
    ELSE IF d = 3 THEN Returns(<<240, 120>>, Scaled(220, 175, 175 - 220, 97, 22, 22 - 97, s))
    ELSE Raises("ValueError")

----------------------------------------------------------------------------
(* Module-level values *)

MATERIAL == "PbEuSe"
\* line 66, 0.09 eV
long_gap_shift == 900
\* Temp with the entries of data sets 1 and 2 confused
Temp_shifted == <<17, 60, 60, 120>>
\* line 134, tenths of a kelvin
Temp == <<17, 17, 60, 120>>
\* DataIndices reaching past the table
DataIndices_past_table == <<0, 1, 2, 4>>
\* line 136
DataIndices == <<0, 1, 2, 3>>
\* line 139
ScaleFactors == <<1>>
\* line 147
Eg_lim == <<-1000, 1000>>
\* line 160, tenths
x_lim == <<0, 5>>
\* line 152, (False, False, False, False): the flag, and the placeholders for
\* the x range, the temperature (False is 0) and the conversion function
NotVsX == <<FALSE, <<>>, 0, "False">>

NoCall == [fn |-> "none", args |-> <<>>, outcome |-> "none", value |-> <<>>, tick |-> 0]

\* record of a call of one of the two functions; value is the tuple returned,
\* <<v>> for the number v returned by Eg_func, <<>> when the call raised
CallRec(fn, args, outcome, value) ==
    [fn |-> fn, args |-> args, outcome |-> outcome, value |-> value, tick |-> 1 - ret.tick]

\* an Eg_func call either becomes the remembered one or leaves it
Remember(x, T, v) == eg_seen' \in {eg_seen, <<x, T, v>>}

Init ==
    /\ pc = "L39"
    /\ defined = {}
    /\ Eg = 0
    /\ B_vec = <<>> /\ vt = 0 /\ vl = 0 /\ mu_Bohr = 0
    /\ Eg_bench = 0 /\ H_bench_inputs = <<>>
    /\ data_i = 0 /\ scale_factor = 0
    /\ params = <<>>
    /\ E_inputs = <<>> /\ x_inputs = <<>> /\ temperature = 0
    /\ calls = <<>>
    /\ printed = <<>>
    /\ ret = NoCall
    /\ eg_seen = <<>>
    /\ err = "none"
    /\ ncb = 0
    /\ iter = <<0, 0>>

----------------------------------------------------------------------------
(* The module-level code *)

\* an exception nobody catches ends the run
Uncaught(exc) ==
    /\ pc' = "raised"
    /\ err' = exc

\* NextPos stepping the outer loop by two
NextPos_skip(d, s) ==
    IF s + 1 <= Len(ScaleFactors) THEN <<d, s + 1>>
    ELSE IF d + 2 <= Len(DataIndices) /\ Len(ScaleFactors) >= 1 THEN <<d + 2, 1>>
    ELSE <<0, 0>>

\* the position after <<d, s>> in the nested for-loops of lines 136 and 139,
\* <<0, 0>> when both lists are exhausted
NextPos(d, s) ==
    IF s + 1 <= Len(ScaleFactors) THEN <<d, s + 1>>
    ELSE IF d + 1 <= Len(DataIndices) /\ Len(ScaleFactors) >= 1 THEN <<d + 1, 1>>
    ELSE <<0, 0>>

\* the for headers binding the loop variables for the next pass, or falling
\* off the end of the module; names are the globals the step bound before
Advance(d, s, names) ==
    LET n == NextPos(d, s)
    IN  /\ iter' = n
        /\ IF n = <<0, 0>>
           THEN /\ pc' = "done"
                /\ UNCHANGED <<data_i, scale_factor>>
                /\ defined' = defined \cup names
           ELSE /\ pc' = "L144"
                /\ data_i' = DataIndices[n[1]]
                /\ scale_factor' = ScaleFactors[n[2]]
                /\ defined' = defined \cup names \cup {"data_i", "scale_factor"}

\* an external collaborator call returns or raises
CollabOutcomes == {"return", "raise"}

\* lines 39-41
Setup39 ==
    /\ pc = "L39"
    /\ LET v == Eg_func(1, 100)
       IN  /\ Eg' = v
           /\ ret' = CallRec("Eg_func", <<1, 100>>, "return", <<v>>)
           /\ Remember(1, 100, v)
    /\ defined' = defined \cup {"x", "T", "Eg"}
    /\ pc' = "L45"
    /\ UNCHANGED <<B_vec, vt, vl, mu_Bohr, Eg_bench, H_bench_inputs, data_i,
                   scale_factor, params, E_inputs, x_inputs, temperature,
                   calls, printed, err, ncb, iter>>

\* lines 45-50
Setup45 ==
    /\ pc = "L45"
    /\ B_vec' = <<0, 0, 0>>
    /\ vt' = 400000
    /\ vl' = 400000
    /\ mu_Bohr' = 579
    /\ defined' = defined \cup {"B_vec", "vt", "vl", "mu_Bohr"}
    /\ pc' = "L125"
    /\ UNCHANGED <<Eg, Eg_bench, H_bench_inputs, data_i, scale_factor, params,
                   E_inputs, x_inputs, temperature, calls, printed, ret,
                   eg_seen, err, ncb, iter>>

\* lines 125-129, and on return of the Hamiltonian constructor lines 134-139
Setup125 ==
    /\ pc = "L125"
    /\ Eg_bench' = 1500
    /\ H_bench_inputs' = <<1500, mu_Bohr, B_vec, vt, vl>>
    /\ \E o \in CollabOutcomes :
         IF o = "return"
         THEN /\ Advance(0, Len(ScaleFactors), {"Eg_bench", "H_bench_inputs", "H_bench", "Temp"})
              /\ err' = err
         ELSE /\ Uncaught("CollaboratorError")
              /\ UNCHANGED <<data_i, scale_factor, iter>>
              /\ defined' = defined \cup {"Eg_bench", "H_bench_inputs"}
    /\ UNCHANGED <<Eg, B_vec, vt, vl, mu_Bohr, params, E_inputs, x_inputs,
                   temperature, calls, printed, ret, eg_seen, ncb>>

\* an entry of the call log
Call(fn, args) == [fn |-> fn, args |-> args]

\* lines 144-152
Step144 ==
    /\ pc = "L144"
    /\ LET s == ScaleArg(<<scale_factor>>)
           r == GetExpData(data_i, s)
       IN  /\ calls' = Append(calls, Call("GetExpData", <<data_i, s>>))
           /\ printed' = <<data_i, s, r.cond>>
           /\ ret' = CallRec("GetExpData", <<data_i, s>>, r.outcome, r.value)
           /\ IF r.outcome = "return"
              THEN /\ params' = r.value
                   /\ E_inputs' = <<0, r.value[2], r.value[3], r.value[5], r.value[6],
                                    long_gap_shift>>
                   /\ x_inputs' = NotVsX
                   /\ defined' = defined \cup {"A", "a1", "a2", "B", "b1", "b2",
                                               "Eg_lim", "E_inputs", "x_inputs"}
                   /\ pc' = "L155"
                   /\ err' = err
              ELSE /\ Uncaught(r.outcome)
                   /\ UNCHANGED <<params, E_inputs, x_inputs, defined>>
    /\ UNCHANGED <<Eg, B_vec, vt, vl, mu_Bohr, Eg_bench, H_bench_inputs, data_i,
                   scale_factor, temperature, eg_seen, ncb, iter>>

\* line 155
Step155 ==
    /\ pc = "L155"
    /\ calls' = Append(calls, Call("EgSweepBothValleys",
                   <<H_bench_inputs, E_inputs, Eg_lim, MATERIAL, Eg_bench, x_inputs, TRUE>>))
    /\ \E o \in CollabOutcomes :
         IF o = "return"
         THEN pc' = "L159" /\ err' = err
         ELSE Uncaught("CollaboratorError")
    /\ UNCHANGED <<globals, printed, ret, eg_seen, ncb, iter>>

\* Step159 redefining the benchmark gap from the gap model
Step159_redefines_bench ==
    /\ pc = "L159"
    /\ temperature' = Temp[data_i + 1]
    /\ x_inputs' = <<TRUE, x_lim, Temp[data_i + 1], "Eg_func">>
    /\ defined' = defined \cup {"vs_x", "x_lim", "temperature", "Eg_of_x"}
    /\ Eg_bench' = Eg
    /\ calls' = Append(calls, Call("EgSweepBothValleys",
                   <<H_bench_inputs, E_inputs, Eg_lim, MATERIAL, Eg_bench', x_inputs', FALSE>>))
    /\ ncb' = 0
    /\ pc' = "in166"
    /\ UNCHANGED <<Eg, B_vec, vt, vl, mu_Bohr, H_bench_inputs, data_i,
                   scale_factor, params, E_inputs, printed, ret, eg_seen, err, iter>>

\* lines 159-166, up to the entry into EgSweepBothValleys
Step159 ==
    /\ pc = "L159"
    /\ temperature' = Temp[data_i + 1]
    /\ x_inputs' = <<TRUE, x_lim, Temp[data_i + 1], "Eg_func">>
    /\ defined' = defined \cup {"vs_x", "x_lim", "temperature", "Eg_of_x"}
    /\ calls' = Append(calls, Call("EgSweepBothValleys",
                   <<H_bench_inputs, E_inputs, Eg_lim, MATERIAL, Eg_bench, x_inputs', FALSE>>))
    /\ ncb' = 0
    /\ pc' = "in166"
    /\ UNCHANGED <<Eg, B_vec, vt, vl, mu_Bohr, Eg_bench, H_bench_inputs, data_i,
                   scale_factor, params, E_inputs, printed, ret, eg_seen, err, iter>>

\* the composition sweep converting a composition of its x range to a gap
\* with the function and the temperature it was handed in x_inputs
EgOfXCallback ==
    /\ pc = "in166"
    /\ ncb < MaxCallbacks
    /\ \E x \in x_inputs[2][1]..x_inputs[2][2] :
         LET T == x_inputs[3]
             v == Eg_func(x, T)
         IN  /\ ret' = CallRec("Eg_func", <<x, T>>, "return", <<v>>)
             /\ Remember(x, T, v)
    /\ ncb' = ncb + 1
    /\ UNCHANGED <<pc, globals, calls, printed, err, iter>>

\* line 166, the call coming back
Return166 ==
    /\ pc = "in166"
    /\ \E o \in CollabOutcomes :
         IF o = "return"
         THEN pc' = "L172" /\ err' = err
         ELSE Uncaught("CollaboratorError")
    /\ UNCHANGED <<globals, calls, printed, ret, eg_seen, ncb, iter>>

\* line 172 and the for headers
Step172 ==
    /\ pc = "L172"
    /\ calls' = Append(calls, Call("EgSweepTransition",
                   <<H_bench_inputs, E_inputs, Eg_lim, MATERIAL, Eg_bench>>))
    /\ \E o \in CollabOutcomes :
         IF o = "return"
         THEN /\ Advance(iter[1], iter[2], {})
              /\ err' = err
         ELSE /\ Uncaught("CollaboratorError")
              /\ UNCHANGED <<data_i, scale_factor, iter, defined>>
    /\ UNCHANGED <<Eg, B_vec, vt, vl, mu_Bohr, Eg_bench, H_bench_inputs, params,
                   E_inputs, x_inputs, temperature, printed, ret, eg_seen, ncb>>

----------------------------------------------------------------------------
(* Calls of the two functions by a caller of the loaded module *)

\* GetExpData(d) or GetExpData(d, scale_factor = s)
CallGetExpData ==
    /\ pc = "done"
    /\ \E d \in IndexInputs, kw \in {<<>>} \cup {<<s>> : s \in ScaleInputs} :
         LET s == ScaleArg(kw)
             r == GetExpData(d, s)
         IN  /\ printed' = <<d, s, r.cond>>
             /\ ret' = CallRec("GetExpData", <<d>> \o kw, r.outcome, r.value)
    /\ UNCHANGED <<pc, globals, calls, eg_seen, err, ncb, iter>>

\* Eg_func(x, T)
CallEg_func ==
    /\ pc = "done"
    /\ \E x \in XInputs, T \in TInputs :
         LET v == Eg_func(x, T)
         IN  /\ ret' = CallRec("Eg_func", <<x, T>>, "return", <<v>>)
             /\ Remember(x, T, v)
    /\ UNCHANGED <<pc, globals, calls, printed, err, ncb, iter>>

Driver ==
    \/ Setup39
    \/ Setup45
    \/ Setup125
    \/ Step144
    \/ Step155
    \/ Step159
    \/ EgOfXCallback
    \/ Return166
    \/ Step172

Next ==
    \/ Driver
    \/ CallGetExpData
    \/ CallEg_func

Spec == Init /\ [][Next]_vars

\* the interpreter keeps executing the module-level code
FairSpec == Spec /\ WF_vars(Driver)

----------------------------------------------------------------------------
(* Properties *)

\* Bauer table 3 in units of 1e-4 eV, rows (A, a1, a2, B, b1, b2)
BauerTable ==
    << <<320, 300, -20, 66, 75, 9>>,
       <<244, 200, -44, 60, 25, -35>>,
       <<240, 180, -60, 78, 9, -69>>,
       <<220, 175, -45, 97, 22, -75>> >>

\* the most recent call was GetExpData
IsGetExpData == ret.fn = "GetExpData"
\* its dataset index
ArgIndex == ret.args[1]
\* its scale factor, 1 when the call left it out
ArgScale == IF Len(ret.args) = 1 THEN 1 ELSE ret.args[2]
ValidIndex == ArgIndex \in 0..3

\* C1: for a dataset index i in 0..3 and a scale factor s (1 when omitted),
\* GetExpData returns row i of the table with every component multiplied by
\* s; GetExpData(0) is (320, 300, -20, 66, 75, 9) in units of 1e-4 eV and
\* s = 0 gives six zeros.
C1_TableRowScaled ==
    (IsGetExpData /\ ValidIndex) =>
        /\ ret.outcome = "return"
        /\ Len(ret.value) = 6
        /\ \A k \in 1..6 : ret.value[k] = BauerTable[ArgIndex + 1][k] * ArgScale
        /\ ret.args = <<0>> => ret.value = <<320, 300, -20, 66, 75, 9>>
        /\ ArgScale = 0 => ret.value = <<0, 0, 0, 0, 0, 0>>

C1_Witness ==
    /\ IsGetExpData
    /\ ret.args = <<3, 2>>
    /\ ret.value = <<440, 350, -90, 194, 44, -150>>

\* C2: for a dataset index outside 0..3 and any scale factor GetExpData ends
\* in the value error and returns no tuple; once a run has ended in an
\* uncaught error, the dataset-index error included, no further call is made.
C2_InvalidIndexRaises ==
    /\ [](IsGetExpData /\ ~ValidIndex =>
            /\ ret.outcome = "ValueError"
            /\ ret.value = <<>>)
    /\ [](err = "ValueError" => pc = "raised")
    /\ [][err # "none" => calls' = calls /\ pc' = pc]_vars

C2_Witness ==
    /\ IsGetExpData
    /\ ret.args = <<-1, 2>>
    /\ ret.outcome = "ValueError"

\* the most recent call was Eg_func(0.1, 10)
IsEgAtTenthTen == ret.fn = "Eg_func" /\ ret.args = <<1, 100>>

\* v is the documented formula at x = 0.1, T = 10, in 1e-5 eV:
\* 72 - 71 + 24.4 - 4.75 - 22.5 + sqrt(509.364), over 1000
DocumentedAtTenthTen(v) ==
    \E r \in 22000..23000 :
        /\ r * r <= 509364000
        /\ (r + 1) * (r + 1) > 509364000
        /\ v = ((72000 - 71000 + 24400 - 4750 - 22500 + r) * 100) \div 1000

\* C3 as stated: Eg_func(0.1, 10) is the value of the documented formula,
\* and that value is about -0.0042 eV.
C3_Original ==
    IsEgAtTenthTen =>
        /\ DocumentedAtTenthTen(ret.value[1])
        /\ ret.value[1] \in (-420 - 50)..(-420 + 50)

\* C3 amended: Eg_func(0.1, 10) is the value of the documented formula, and
\* that value is about +0.0207 eV.
C3_DocumentedValue ==
    IsEgAtTenthTen =>
        /\ DocumentedAtTenthTen(ret.value[1])
        /\ ret.value[1] \in 2071..2072

C3_Witness ==
    /\ IsEgAtTenthTen
    /\ Eg = 2071
    /\ pc = "L45"

\* the call the sweep loop makes at position k of a complete run
ExpectedCall(k, c) ==
    LET i == (k - 1) \div 4
        j == (k - 1) % 4
    IN  IF j = 0 THEN c.fn = "GetExpData" /\ c.args = <<i, 1>>
        ELSE IF j = 1 THEN /\ c.fn = "EgSweepBothValleys"
                           /\ c.args[6][1] = FALSE
                           /\ c.args[7] = TRUE
        ELSE IF j = 2 THEN /\ c.fn = "EgSweepBothValleys"
                           /\ c.args[6][1] = TRUE
                           /\ c.args[6][2] = <<0, 5>>
                           /\ c.args[6][4] = "Eg_func"
                           /\ c.args[7] = FALSE
        ELSE c.fn = "EgSweepTransition"

C5_Terminates ==
    /\ <>(pc \in {"done", "raised"})
    /\ [](err # "ValueError")
    /\ [](pc = "raised" => err = "CollaboratorError")
    /\ [](pc = "done" => err = "none")

C5_Witness ==
    /\ pc = "done"
    /\ err = "none"
    /\ iter = <<0, 0>>

\* the value the module gives H_bench_inputs
BenchInputs == <<1500, 579, <<0, 0, 0>>, 400000, 400000>>

ConstNames == {"B_vec", "vt", "vl", "mu_Bohr", "Eg_bench", "H_bench_inputs"}

\* C6: the physical constants are bound before the sweep, a bound constant
\* is never changed by any step (GetExpData calls, Eg_func calls and loop
\* steps included), and every collaborator call of the loop receives the
\* same H_bench_inputs and Eg_bench = 0.15.
C6_ConstantsFrozen ==
    /\ [](pc \in {"L144", "L155", "L159", "in166", "L172", "done"} =>
            /\ ConstNames \subseteq defined
            /\ H_bench_inputs = BenchInputs
            /\ Eg_bench = 1500)
    /\ [](\A k \in 1..Len(calls) :
            calls[k].fn # "GetExpData" =>
                /\ calls[k].args[1] = BenchInputs
                /\ calls[k].args[5] = 1500)
    /\ [][/\ defined \subseteq defined'
          /\ "B_vec" \in defined => B_vec' = B_vec
          /\ "vt" \in defined => vt' = vt
          /\ "vl" \in defined => vl' = vl
          /\ "mu_Bohr" \in defined => mu_Bohr' = mu_Bohr
          /\ "Eg_bench" \in defined => Eg_bench' = Eg_bench
          /\ "H_bench_inputs" \in defined => H_bench_inputs' = H_bench_inputs]_vars

C6_Witness ==
    /\ pc = "L172"
    /\ iter = <<4, 1>>
    /\ Len(calls) = 15
    /\ calls[15].args[1] = BenchInputs
    /\ physConsts = <<<<0, 0, 0>>, 400000, 400000, 579, 1500, BenchInputs>>

\* C7: a call of Eg_func returns what an earlier call with the same (x, T)
\* returned, whatever happened in between, and a call of Eg_func changes no
\* program state.
C7_EgDeterministicPure ==
    /\ []((/\ ret.fn = "Eg_func"
           /\ eg_seen # <<>>
           /\ eg_seen[1] = ret.args[1]
           /\ eg_seen[2] = ret.args[2]) => ret.value = <<eg_seen[3]>>)
    /\ [][(ret' # ret /\ ret'.fn = "Eg_func" /\ pc' = pc) =>
            UNCHANGED <<globals, calls, printed, err>>]_vars

C7_Witness ==
    /\ pc = "done"
    /\ eg_seen = <<1, 100, 2071>>
    /\ ret.fn = "Eg_func"
    /\ ret.args = <<1, 100>>
    /\ Len(calls) = 16

\* C8: a tuple returned by GetExpData satisfies a2 = a1 - A and b2 = b1 - B,
\* for every valid index and every scale factor.
C8_FluctuationDerived ==
    (IsGetExpData /\ ValidIndex /\ ret.outcome = "return") =>
        /\ ret.value[3] = ret.value[2] - ret.value[1]
        /\ ret.value[6] = ret.value[5] - ret.value[4]

C8_Witness ==
    /\ IsGetExpData
    /\ ret.args = <<2, 2>>
    /\ ret.value[3] = -120
    /\ ret.value[6] = -138

\* C9 as stated: for every valid index and every positive scale factor both
\* a2 and b2 are below zero.
C9_Original ==
    (IsGetExpData /\ ValidIndex /\ ArgScale > 0) =>
        /\ ret.value[3] < 0
        /\ ret.value[6] < 0

\* C9 amended: for every valid index and every positive scale factor a2 is
\* below zero; b2 is below zero for the indices 1, 2, 3 and above zero for
\* index 0.
C9_FluctuationSigns ==
    (IsGetExpData /\ ValidIndex /\ ArgScale > 0) =>
        /\ ret.value[3] < 0
        /\ ArgIndex \in 1..3 => ret.value[6] < 0
        /\ ArgIndex = 0 => ret.value[6] > 0

C9_Witness ==
    /\ IsGetExpData
    /\ ret.args = <<0, 2>>
    /\ ret.value[3] = -40
    /\ ret.value[6] = 18

\* the temperatures of the conditions the four data sets were measured at
ConditionT == <<17, 17, 60, 120>>

\* C10: in every pass of the loop the temperature put into the composition
\* sweep is the temperature of the condition GetExpData printed for the same
\* dataset index: 1.7 K, 1.7 K, 6 K, 12 K for the indices 0, 1, 2, 3.
C10_TemperatureMatches ==
    pc \in {"in166", "L172"} =>
        /\ printed[1] = data_i
        /\ printed[3][2] = ConditionT[data_i + 1]
        /\ temperature = printed[3][2]
        /\ x_inputs[3] = printed[3][2]
        /\ calls[Len(calls)].args[6][3] = printed[3][2]

C10_Witness ==
    /\ pc = "L172"
    /\ data_i = 2
    /\ temperature = 60
    /\ printed = <<2, 1, <<240, 60>>>>

====
